---- MODULE Spec2Model ----
(***************************************************************************)
(* A model of arcsim-python: SimulationState.merge and parse_obj           *)
(* (src/simulation_state.py), ARCSimRunner.load_obj and the life of the    *)
(* runner's config file (src/arcsim_runner.py, src/arcsim_config.py), and  *)
(* Mesh.poisson_plane (src/mesh.py).                                       *)
(*                                                                         *)
(* A position (a row of three floats) is abstracted to one natural number; *)
(* an array is a sequence, a 2-D array a sequence of rows, so that         *)
(* worldPositions (frames x nodes x 3) is a sequence of frames, each a     *)
(* sequence of node positions.  A Python object is a function from its     *)
(* attribute names to values: hasattr is membership in DOMAIN.  A raised   *)
(* exception is the value Raise(kind).                                     *)
(***************************************************************************)
EXTENDS Integers, Sequences, FiniteSets, TLC

VARIABLES
    ins,        \* merge: the three states S1, S2, S3 handed to merge
    outs,       \* merge: the results computed so far, in order
    file,       \* parse_obj: the lines read so far, by kind, each kind in file order
    parser,     \* parse_obj: the locals nodes, verts, f and world_to_mesh
    sim_state,  \* parse_obj: what the call returned or raised, once it ended
    obj_files,  \* load_obj: the sorted frame files of out_dir
    handles,    \* load_obj: config_json["handles"]
    sim_object, \* load_obj: the accumulator, or the exception that ended the call
    loaded,     \* load_obj: the number of frame files the loop has taken
    load_pc,    \* load_obj: "idle", "loop", "returned" or "raised"
    args,       \* poisson_plane: the arguments size, res and k
    vertices,   \* poisson_plane: the point set
    active,     \* poisson_plane: the active list
    idx,        \* poisson_plane: the index picked in the active list (1-based)
    tries,      \* poisson_plane: the iterations of `for _ in range(k)` done
    found,      \* poisson_plane: whether a candidate of this point was accepted
    ppc,        \* poisson_plane: "idle", "pick", "try" or "done"
    temporary_config,   \* ARCSimRunner: self.temporary_config
    config_file_exists, \* ARCSimRunner: whether self.config_file is a file on disk
    runner_pc,  \* ARCSimRunner: "idle", "ready", "simulating" or "exited"
    calls       \* ARCSimRunner: the calls that ended, in order, each with its outcome

mergeVars == <<ins, outs>>
parseVars == <<file, parser, sim_state>>
loadVars == <<obj_files, handles, sim_object, loaded, load_pc>>
poissonVars == <<args, vertices, active, idx, tries, found, ppc>>
runnerVars == <<temporary_config, config_file_exists, runner_pc, calls>>
vars == <<ins, outs, file, parser, sim_state,
          obj_files, handles, sim_object, loaded, load_pc,
          args, vertices, active, idx, tries, found, ppc,
          temporary_config, config_file_exists, runner_pc, calls>>

(***************************************************************************)
(* Bounds of the model.                                                    *)
(***************************************************************************)
\* positions are drawn from 0..MaxCoord
MaxCoord == 1
\* a frame file holds at most MaxNodes `v` lines, MaxVerts `ms` lines and
\* MaxFaces `f` lines
MaxNodes == 2
MaxVerts == 2
MaxFaces == 1
\* out_dir holds at most MaxFrames frame files
MaxFrames == 3
\* poisson_plane is called with k in 1..MaxAttempts
MaxAttempts == 2
\* at most MaxCalls calls are made on one ARCSimRunner
MaxCalls == 3

(***************************************************************************)
(* NodeType (simulation_state.py:7-9).                                     *)
(***************************************************************************)
NORMAL == 0
HANDLE == 1

(***************************************************************************)
(* Exceptions and attributes.                                              *)
(***************************************************************************)
Raise(kind) == [error |-> kind]

IsError(x) == "error" \in DOMAIN x

hasattr(obj, name) == name \in DOMAIN obj

\* SimulationState(): only the flag is set, no array attribute exists
EmptyState == [empty |-> TRUE]

\* the locals of parse_obj before the first line (lines 113-117)
NewParser == [nodes |-> <<>>, verts |-> <<>>, f |-> <<>>, world_to_mesh |-> <<>>]

\* a call that has not ended yet
Pending == [pending |-> TRUE]
IsPending(x) == "pending" \in DOMAIN x

\* a frame file of which no line has been read
NoFile == [v |-> <<>>, ms |-> <<>>, f |-> <<>>]

\* config_json["handles"] is None
NoHandles == [present |-> FALSE]

(***************************************************************************)
(* Each machine below runs alone; the others stay as they are here.        *)
(***************************************************************************)
MergeIdle == ins = <<>> /\ outs = <<>>

ParseIdle == file = NoFile /\ parser = NewParser /\ sim_state = Pending

LoadIdle ==
    /\ obj_files = <<>> /\ handles = NoHandles /\ sim_object = Pending
    /\ loaded = 0 /\ load_pc = "idle"

PoissonIdle ==
    /\ args = [size |-> <<0, 0>>, res |-> 0, k |-> 0]
    /\ vertices = <<>> /\ active = <<>>
    /\ idx = 0 /\ tries = 0 /\ found = FALSE /\ ppc = "idle"

RunnerIdle ==
    /\ temporary_config = FALSE /\ config_file_exists = FALSE
    /\ runner_pc = "idle" /\ calls = <<>>

\* the size of the second axis of a (frames x nodes) array
Width(arr) == IF Len(arr) = 0 THEN 0 ELSE Len(arr[1])

\* np.vstack / np.concatenate along the first axis: the other axes must agree
CanStack(a, b) == Width(a) = Width(b)

(***************************************************************************)
(* SimulationState.parse_obj                                               *)
(*                                                                         *)
(* A line is its prefix token (a sequence of characters) and its fields:   *)
(* a position for `v` and `ms`, three corners <<a, p>> (1-based world      *)
(* node id, 1-based material vertex id) for `f`.                           *)
(***************************************************************************)
\* l.startswith(s)
startswith(l, s) ==
    /\ Len(l) >= Len(s)
    /\ \A i \in 1..Len(s) : l[i] = s[i]

\* parse.parse(template, l): a Result when the token before the first blank
\* is the template's own, None otherwise
templateMatches(l, s) == l = s

\* world_to_mesh[k] = v on a dict kept as its items in insertion order
dictSet(d, k, v) ==
    IF \E i \in 1..Len(d) : d[i][1] = k
    THEN [i \in 1..Len(d) |-> IF d[i][1] = k THEN <<k, v>> ELSE d[i]]
    ELSE Append(d, <<k, v>>)

RECURSIVE sortByKey(_)
\* world_to_mesh[np.argsort(world_to_mesh[:,0])]: the items by ascending key
\* (the keys of a dict are distinct)
sortByKey(d) ==
    IF Len(d) = 0 THEN <<>>
    ELSE LET m == CHOOSE i \in 1..Len(d) : \A j \in 1..Len(d) : d[i][1] <= d[j][1]
             rest == [i \in 1..(Len(d) - 1) |-> IF i < m THEN d[i] ELSE d[i + 1]]
         IN  <<d[m]>> \o sortByKey(rest)

\* np.array(arr)[k] for one index: in range when -len <= k < len
indexInRange(arr, k) == -Len(arr) <= k /\ k < Len(arr)

\* negative indices count from the end; the result is 1-based for a sequence
wrapIndex(arr, k) == IF k < 0 THEN Len(arr) + k + 1 ELSE k + 1

\* np.array(arr)[idxs]: fancy indexing by a list of indices
take(arr, idxs) ==
    IF \E i \in 1..Len(idxs) : ~indexInRange(arr, idxs[i])
    THEN Raise("IndexError")
    ELSE [rows |-> [i \in 1..Len(idxs) |-> arr[wrapIndex(arr, idxs[i])]]]

\* a `v` line
readVertex(ps, pos) == [ps EXCEPT !.nodes = Append(@, pos)]

\* a `ms` line
readMesh(ps, pos) == [ps EXCEPT !.verts = Append(@, pos)]

\* an `f` line: the world ids go to f, and each corner is entered in
\* world_to_mesh, a later corner overwriting an earlier one of the same node
readFace(ps, corners) ==
    LET faces == [i \in 1..3 |-> corners[i][1] - 1]
        mesh_faces == [i \in 1..3 |-> corners[i][2] - 1]
        d1 == dictSet(ps.world_to_mesh, faces[1], mesh_faces[1])
        d2 == dictSet(d1, faces[2], mesh_faces[2])
        d3 == dictSet(d2, faces[3], mesh_faces[3])
    IN  [ps EXCEPT !.f = Append(@, faces), !.world_to_mesh = d3]

\* mutant of finish: the items of world_to_mesh are used in insertion order
finishUnsorted(ps) ==
    IF Len(ps.world_to_mesh) = 0 THEN Raise("IndexError")
    ELSE LET items == ps.world_to_mesh
             picked == take(ps.verts, [i \in 1..Len(items) |-> items[i][2]])
         IN  IF IsError(picked) THEN picked
             ELSE [empty |-> FALSE, faces |-> ps.f, verts |-> picked.rows,
                   nodes |-> <<ps.nodes>>]

\* lines 144-154: after the last line
finish(ps) ==
    \* np.array([]) has one axis, so world_to_mesh[:,0] raises
    IF Len(ps.world_to_mesh) = 0 THEN Raise("IndexError")
    ELSE LET items == sortByKey(ps.world_to_mesh)
             picked == take(ps.verts, [i \in 1..Len(items) |-> items[i][2]])
         IN  IF IsError(picked) THEN picked
             ELSE [empty |-> FALSE, faces |-> ps.f, verts |-> picked.rows,
                   nodes |-> <<ps.nodes>>]

\* prefixes other than v, f and ms that a frame file may carry
OtherPrefixes ==
    { <<"v", "t">>, <<"v", "n">>, <<"n", "v">>, <<"n", "l">>, <<"t", "m">>,
      <<"e">>, <<"e", "a">> }

\* the branch of the if/elif chain of lines 122-142 a line takes
branchOf(l) ==
    IF startswith(l, <<"v">>) THEN <<"v">>
    ELSE IF startswith(l, <<"f">>) THEN <<"f">>
    ELSE IF startswith(l, <<"m", "s">>) THEN <<"m", "s">>
    ELSE <<>>

Positions == 0..MaxCoord
WorldIds == 0..(MaxNodes + 1)
MaterialIds == 0..(MaxVerts + 1)
Corners == WorldIds \X MaterialIds

ParseInit ==
    /\ file = NoFile
    /\ parser = NewParser
    /\ sim_state = Pending
    /\ MergeIdle
    /\ LoadIdle
    /\ PoissonIdle
    /\ RunnerIdle

ReadVertexLine ==
    /\ IsPending(sim_state)
    /\ Len(file.v) < MaxNodes
    /\ \E pos \in Positions :
         /\ file' = [file EXCEPT !.v = Append(@, pos)]
         /\ parser' = readVertex(parser, pos)
    /\ UNCHANGED <<sim_state, mergeVars, loadVars, poissonVars, runnerVars>>

ReadMeshLine ==
    /\ IsPending(sim_state)
    /\ Len(file.ms) < MaxVerts
    /\ \E pos \in Positions :
         /\ file' = [file EXCEPT !.ms = Append(@, pos)]
         /\ parser' = readMesh(parser, pos)
    /\ UNCHANGED <<sim_state, mergeVars, loadVars, poissonVars, runnerVars>>

ReadFaceLine ==
    /\ IsPending(sim_state)
    /\ Len(file.f) < MaxFaces
    /\ \E corners \in Corners \X Corners \X Corners :
         /\ file' = [file EXCEPT !.f = Append(@, corners)]
         /\ parser' = readFace(parser, corners)
    /\ UNCHANGED <<sim_state, mergeVars, loadVars, poissonVars, runnerVars>>

\* a line of another prefix: skipped when no branch takes it; a branch that
\* takes it hands None (the template does not match) to map(), which raises
ReadOtherLine ==
    /\ IsPending(sim_state)
    /\ \E l \in OtherPrefixes :
         sim_state' = IF branchOf(l) = <<>> \/ templateMatches(l, branchOf(l))
                      THEN sim_state
                      ELSE [error |-> "TypeError", line |-> l]
    /\ UNCHANGED <<file, parser, mergeVars, loadVars, poissonVars, runnerVars>>

EndOfFile ==
    /\ IsPending(sim_state)
    /\ sim_state' = finish(parser)
    /\ UNCHANGED <<file, parser, mergeVars, loadVars, poissonVars, runnerVars>>

ParseNext ==
    ReadVertexLine \/ ReadMeshLine \/ ReadFaceLine \/ ReadOtherLine \/ EndOfFile

SpecParse == ParseInit /\ [][ParseNext]_vars

\* the corners <<a, p>> of the `f` lines read
PairsOf(fl) == { fl.f[j][i] : j \in 1..Len(fl.f), i \in 1..3 }

\* every occurrence of a world node in the `f` lines names the same material vertex
ConsistentPairs(fl) ==
    \A x \in PairsOf(fl), y \in PairsOf(fl) : x[1] = y[1] => x[2] = y[2]

\* the `v`, `f` and `ms` lines of a well-formed frame file: there is a face,
\* every corner names a `v` line and an `ms` line of the file, the pairing is
\* consistent, and every world node is paired with a material vertex by some
\* corner
WellFormed(fl) ==
    /\ Len(fl.f) >= 1
    /\ \A x \in PairsOf(fl) : x[1] \in 1..Len(fl.v) /\ x[2] \in 1..Len(fl.ms)
    /\ ConsistentPairs(fl)
    /\ \A n \in 1..Len(fl.v) : \E x \in PairsOf(fl) : x[1] = n

Returned(x) == ~IsPending(x) /\ ~IsError(x)

\* every corner of the `f` lines names a `v` line and an `ms` line of the file
IdsInRange(fl) ==
    \A x \in PairsOf(fl) : x[1] \in 1..Len(fl.v) /\ x[2] \in 1..Len(fl.ms)

\* the call ended at a line of another prefix that a branch took (see C6)
RaisedAtOtherLine(x) == IsError(x) /\ hasattr(x, "line")

(***************************************************************************)
(* C4: parse_obj on a well-formed frame file (its `v`, `f`, `ms` lines are  *)
(* WellFormed and every other line is one no branch takes) returns a       *)
(* single-frame state: faces holds the 0-based world ids of the `f` lines, *)
(* worldPositions is the one frame of the `v` rows in file order, and      *)
(* restVertices[i] is the `ms` row paired with world node i+1 in the `f`   *)
(* lines, whatever the order of the `ms` lines.                            *)
(***************************************************************************)
C4_ParseWellFormed ==
    (~IsPending(sim_state) /\ ~RaisedAtOtherLine(sim_state) /\ WellFormed(file)) =>
        /\ ~IsError(sim_state)
        /\ sim_state.faces =
             [j \in 1..Len(file.f) |-> [i \in 1..3 |-> file.f[j][i][1] - 1]]
        /\ sim_state.nodes = <<file.v>>
        /\ Len(sim_state.verts) = Len(file.v)
        /\ \A x \in PairsOf(file) : sim_state.verts[x[1]] = file.ms[x[2]]

\* the `ms` lines are declared in the opposite order of the nodes they go with
C4_Witness ==
    /\ Returned(sim_state)
    /\ WellFormed(file)
    /\ Len(file.v) = 2
    /\ Len(file.ms) = 2
    /\ file.ms[1] # file.ms[2]
    /\ <<1, 2>> \in PairsOf(file)
    /\ <<2, 1>> \in PairsOf(file)
    /\ file.f[1][1][1] = 2
    /\ sim_state.verts = <<file.ms[2], file.ms[1]>>

(***************************************************************************)
(* C5: when the `f` lines pair one world node with two different material  *)
(* vertices, parse_obj fails and returns no state.                         *)
(* (The statement of the claim; the code keeps the last pairing.)          *)
(***************************************************************************)
C5_ConflictingPairsRejected ==
    (~IsPending(sim_state) /\ IdsInRange(file) /\ ~ConsistentPairs(file))
    => IsError(sim_state)

(***************************************************************************)
(* C6: a line whose prefix is none of v, f, ms never makes parse_obj fail. *)
(* (The statement of the claim; `vt` and `vn` take the `v` branch.)        *)
(***************************************************************************)
C6_OtherPrefixesSkipped ==
    ~(IsError(sim_state) /\ hasattr(sim_state, "line")
        /\ sim_state.line \in OtherPrefixes)

(***************************************************************************)
(* C9: every state parse_obj returns (here: for a file whose corners all    *)
(* name lines of the file) has as many restVertices as nodes, also when no *)
(* face references some node.                                              *)
(* (The statement of the claim; the code keeps one rest vertex per         *)
(* referenced node.)                                                       *)
(***************************************************************************)
C9_RestVerticesMatchNodes ==
    (Returned(sim_state) /\ IdsInRange(file))
    => Len(sim_state.verts) = Width(sim_state.nodes)

(***************************************************************************)
(* C10: no state parse_obj returns holds a face id outside                 *)
(* [0, node count).                                                        *)
(* (The statement of the claim; the code never compares a world id with    *)
(* the number of `v` lines.)                                               *)
(***************************************************************************)
C10_FaceIdsInRange ==
    (Returned(sim_state) /\ Len(file.v) >= 1) =>
        \A j \in 1..Len(sim_state.faces) : \A i \in 1..3 :
            sim_state.faces[j][i] \in 0..(Width(sim_state.nodes) - 1)

(***************************************************************************)
(* SimulationState.merge                                                   *)
(***************************************************************************)
\* mutant of stack: the frames of obj2 are put before those of obj1
stackReversed(obj1, obj2) ==
    IF ~CanStack(obj1.nodes, obj2.nodes) THEN Raise("ValueError")
    ELSE IF ~hasattr(obj1, "node_type") \/ ~hasattr(obj2, "node_type")
         THEN Raise("AttributeError")
    ELSE [empty |-> FALSE, faces |-> obj1.faces, verts |-> obj1.verts,
          nodes |-> obj2.nodes \o obj1.nodes,
          node_type |-> obj1.node_type \o obj2.node_type]

\* the body of merge once neither operand is empty (lines 81-91)
stack(obj1, obj2) ==
    \* faces and verts are taken from obj1 without any comparison with obj2
    IF ~CanStack(obj1.nodes, obj2.nodes) THEN Raise("ValueError")
    ELSE IF ~hasattr(obj1, "node_type") \/ ~hasattr(obj2, "node_type")
         THEN Raise("AttributeError")
    ELSE IF ~CanStack(obj1.node_type, obj2.node_type) THEN Raise("ValueError")
    ELSE IF hasattr(obj1, "nodes_velocity") /\ hasattr(obj2, "nodes_velocity")
         THEN IF ~CanStack(obj1.nodes_velocity, obj2.nodes_velocity)
              THEN Raise("ValueError")
              ELSE [empty |-> FALSE, faces |-> obj1.faces, verts |-> obj1.verts,
                    nodes |-> obj1.nodes \o obj2.nodes,
                    node_type |-> obj1.node_type \o obj2.node_type,
                    nodes_velocity |-> obj1.nodes_velocity \o obj2.nodes_velocity]
    ELSE [empty |-> FALSE, faces |-> obj1.faces, verts |-> obj1.verts,
          nodes |-> obj1.nodes \o obj2.nodes,
          node_type |-> obj1.node_type \o obj2.node_type]

\* mutant of merge: the early return for an empty obj2 is missing, so the
\* attributes of the empty obj2 are read
mergeNoRightIdentity(obj1, obj2) ==
    IF obj1.empty THEN obj2
    ELSE IF obj2.empty THEN Raise("AttributeError")
    ELSE stack(obj1, obj2)

merge(obj1, obj2) ==
    IF obj1.empty THEN obj2
    ELSE IF obj2.empty THEN obj1
    ELSE stack(obj1, obj2)

\* merge applied to the value of an expression that may have raised
mergeExpr(x, y) ==
    IF IsError(x) THEN x ELSE IF IsError(y) THEN y ELSE merge(x, y)

(***************************************************************************)
(* The states handed to merge: the empty state and single-frame states as  *)
(* parse_obj builds them (no node_type), as load_obj completes them (with  *)
(* node_type) and as SimulationState.load may read them (with              *)
(* nodes_velocity).                                                        *)
(***************************************************************************)
FacesA == << <<0, 1, 2>> >>
FacesB == << <<0, 2, 1>> >>
FacesSmall == << <<0, 1, 1>> >>

VertsA == <<0, 0, MaxCoord>>
VertsB == <<0, MaxCoord, MaxCoord>>
VertsSmall == <<0, MaxCoord>>

Topologies ==
    { [faces |-> FacesA, verts |-> VertsA],
      [faces |-> FacesB, verts |-> VertsA],
      [faces |-> FacesA, verts |-> VertsB],
      [faces |-> FacesSmall, verts |-> VertsSmall] }

\* one frame in which every node is at position c
Frame(n, c) == << [i \in 1..n |-> c] >>

RoleRow(n) == << [i \in 1..n |-> IF i = 1 THEN HANDLE ELSE NORMAL] >>

Parsed(t, c) ==
    [empty |-> FALSE, faces |-> t.faces, verts |-> t.verts,
     nodes |-> Frame(Len(t.verts), c)]

WithRoles(t, c) ==
    [empty |-> FALSE, faces |-> t.faces, verts |-> t.verts,
     nodes |-> Frame(Len(t.verts), c), node_type |-> RoleRow(Len(t.verts))]

WithVelocity(t, c) ==
    [empty |-> FALSE, faces |-> t.faces, verts |-> t.verts,
     nodes |-> Frame(Len(t.verts), c), node_type |-> RoleRow(Len(t.verts)),
     nodes_velocity |-> Frame(Len(t.verts), c)]

InputStates ==
    {EmptyState}
    \cup { Parsed(t, c) : t \in Topologies, c \in 0..MaxCoord }
    \cup { WithRoles(t, c) : t \in Topologies, c \in 0..MaxCoord }
    \cup { WithVelocity(t, c) : t \in Topologies, c \in 0..MaxCoord }

(***************************************************************************)
(* The merge machine: S1, S2, S3 are folded left to right,                 *)
(* merge(merge(S1, S2), S3), and then right to left,                       *)
(* merge(S1, merge(S2, S3)).  outs grows by one result per step:           *)
(* <<S1+S2, (S1+S2)+S3, S2+S3, S1+(S2+S3)>>.                               *)
(***************************************************************************)
MergeInit ==
    /\ ins \in InputStates \X InputStates \X InputStates
    /\ outs = <<>>
    /\ ParseIdle
    /\ LoadIdle
    /\ PoissonIdle
    /\ RunnerIdle

MergeFirstPair ==
    /\ ins # <<>>
    /\ Len(outs) = 0
    /\ outs' = <<mergeExpr(ins[1], ins[2])>>
    /\ UNCHANGED <<ins, parseVars, loadVars, poissonVars, runnerVars>>

MergeLeftFold ==
    /\ Len(outs) = 1
    /\ outs' = Append(outs, mergeExpr(outs[1], ins[3]))
    /\ UNCHANGED <<ins, parseVars, loadVars, poissonVars, runnerVars>>

MergeLastPair ==
    /\ Len(outs) = 2
    /\ outs' = Append(outs, mergeExpr(ins[2], ins[3]))
    /\ UNCHANGED <<ins, parseVars, loadVars, poissonVars, runnerVars>>

MergeRightFold ==
    /\ Len(outs) = 3
    /\ outs' = Append(outs, mergeExpr(ins[1], outs[3]))
    /\ UNCHANGED <<ins, parseVars, loadVars, poissonVars, runnerVars>>

MergeNext == MergeFirstPair \/ MergeLeftFold \/ MergeLastPair \/ MergeRightFold

SpecMerge == MergeInit /\ [][MergeNext]_vars

\* the frames of a state: none for the empty state
FramesOf(s) == IF s.empty THEN <<>> ELSE s.nodes

\* same faces, same rest vertices, same node count
SameTopology(a, b) ==
    a.empty \/ b.empty
    \/ (a.faces = b.faces /\ a.verts = b.verts /\ Width(a.nodes) = Width(b.nodes))

HasRoles(s) == s.empty \/ hasattr(s, "node_type")

(***************************************************************************)
(* C1: merge(a, b) with both a and b non-empty fails whenever a.faces      *)
(* differs from b.faces or a.verts differs from b.verts.                   *)
(* (The statement of the claim; the code compares neither.)                *)
(***************************************************************************)
C1_MergeRejectsTopologyDrift ==
    (Len(outs) >= 1 /\ ~ins[1].empty /\ ~ins[2].empty
        /\ (ins[1].faces # ins[2].faces \/ ins[1].verts # ins[2].verts))
    => IsError(outs[1])

(***************************************************************************)
(* C2: the empty state is a two-sided identity of merge: merge(EMPTY, S)   *)
(* is S and merge(S, EMPTY) is S, attribute for attribute.                 *)
(***************************************************************************)
C2_MergeIdentity ==
    Len(outs) >= 1 =>
        /\ ins[1].empty => outs[1] = ins[2]
        /\ ins[2].empty => outs[1] = ins[1]
        /\ (Len(outs) >= 3 /\ ins[3].empty) => outs[3] = ins[2]

C2_Witness ==
    /\ Len(outs) >= 1
    /\ ins[2].empty
    /\ ~ins[1].empty
    /\ hasattr(ins[1], "nodes_velocity")
    /\ outs[1] = ins[1]

readLine(ps, kind, fields) ==
    CASE kind = "v" -> readVertex(ps, fields)
      [] kind = "ms" -> readMesh(ps, fields)
      [] OTHER -> readFace(ps, fields)

RECURSIVE readLines(_, _, _)
readLines(ps, kind, lines) ==
    IF Len(lines) = 0 THEN ps
    ELSE readLines(readLine(ps, kind, Head(lines)), kind, Tail(lines))

parse_obj(fl) ==
    finish(readLines(readLines(readLines(NewParser, "v", fl.v), "ms", fl.ms), "f", fl.f))

(***************************************************************************)
(* ARCSimRunner.load_obj                                                   *)
(***************************************************************************)
\* lines 103-105: node_type has the shape (1, nodes) of the frame; the ids of
\* the first handle are set to HANDLE in every row
assignRoles(single, h) ==
    LET n == Width(single.nodes)
        row == [i \in 1..n |->
                  IF h.present /\ (i - 1) \in h.nodes THEN HANDLE ELSE NORMAL]
    IN  IF h.present /\ \E id \in h.nodes : id >= n
        THEN Raise("IndexError")
        ELSE [empty |-> FALSE, faces |-> single.faces, verts |-> single.verts,
              nodes |-> single.nodes,
              node_type |-> [k \in 1..Len(single.nodes) |-> row]]

\* loadOne with the operands of merge exchanged: the new frame goes in front
loadOneInFront(acc, fl, h) ==
    LET single == parse_obj(fl)
    IN  IF IsError(single) THEN single
        ELSE mergeExpr(assignRoles(single, h), acc)

\* one iteration of the loop of lines 100-107
loadOne(acc, fl, h) ==
    LET single == parse_obj(fl)
    IN  IF IsError(single) THEN single
        ELSE mergeExpr(acc, assignRoles(single, h))

\* the `f` lines of the frame files of a two-node and of a one-node cloth
FaceLineA == << <<1, 1>>, <<2, 2>>, <<1, 1>> >>
FaceLineB == << <<2, 2>>, <<1, 1>>, <<2, 2>> >>
FaceLineOne == << <<1, 1>>, <<1, 1>>, <<1, 1>> >>

\* the frame files out_dir may hold: frames of a two-node cloth, with either
\* face line, frames of a one-node cloth, and an export without faces
FrameFiles ==
    { [v |-> <<a, b>>, ms |-> <<0, MaxCoord>>, f |-> <<fl>>] :
        a \in Positions, b \in Positions, fl \in {FaceLineA, FaceLineB} }
    \cup { [v |-> <<a>>, ms |-> <<0>>, f |-> <<FaceLineOne>>] : a \in Positions }
    \cup { [v |-> <<0>>, ms |-> <<0>>, f |-> <<>>] }

HandleChoices ==
    {NoHandles} \cup { [present |-> TRUE, nodes |-> S] : S \in SUBSET (0..MaxNodes) }

FileLists == UNION { [1..n -> FrameFiles] : n \in 0..MaxFrames }

LoadInit ==
    /\ obj_files \in FileLists
    /\ handles \in HandleChoices
    /\ sim_object = EmptyState
    /\ loaded = 0
    /\ load_pc = "loop"
    /\ MergeIdle
    /\ ParseIdle
    /\ PoissonIdle
    /\ RunnerIdle

LoadFrame ==
    /\ load_pc = "loop"
    /\ loaded < Len(obj_files)
    /\ sim_object' = loadOne(sim_object, obj_files[loaded + 1], handles)
    /\ loaded' = loaded + 1
    /\ load_pc' = IF IsError(sim_object') THEN "raised" ELSE "loop"
    /\ UNCHANGED <<obj_files, handles, mergeVars, parseVars, poissonVars, runnerVars>>

ReturnLoaded ==
    /\ load_pc = "loop"
    /\ loaded = Len(obj_files)
    /\ load_pc' = "returned"
    /\ UNCHANGED <<obj_files, handles, sim_object, loaded, mergeVars, parseVars, poissonVars, runnerVars>>

LoadNext == LoadFrame \/ ReturnLoaded

SpecLoad == LoadInit /\ [][LoadNext]_vars

(***************************************************************************)
(* C8: after load_obj has ingested N >= 1 frames with handle ids H, the    *)
(* state's nodeRole holds one value per node: its length is the node       *)
(* count, whatever N.                                                      *)
(* (The statement of the claim; the code keeps one row of roles per frame, *)
(* so the length of node_type is N.)                                       *)
(***************************************************************************)
C8_OneRolePerNode ==
    (load_pc = "returned" /\ loaded >= 1)
    => Len(sim_object.node_type) = Width(sim_object.nodes)

\* the world positions of the first k files of obj_files, file by file
FirstFrames(k) == [j \in 1..k |-> obj_files[j].v]

IsPrefix(p, q) == Len(p) <= Len(q) /\ \A j \in 1..Len(p) : p[j] = q[j]

(***************************************************************************)
(* C11: load_obj goes EMPTY -> PARTIAL(1) -> ... -> COMPLETE(N): as long   *)
(* as no exception ends the call, after the k-th file of the sorted list   *)
(* has been parsed and merged the accumulator holds exactly k frames,      *)
(* frame j being the `v` lines of the j-th file, and the state returned    *)
(* for N files holds N frames; every step keeps the frames already held,   *)
(* in place, so the frame count never decreases.                           *)
(***************************************************************************)
C11_IngestionStateMachine ==
    /\ [](load_pc \in {"loop", "returned"} =>
            /\ ~IsError(sim_object)
            /\ sim_object.empty <=> (loaded = 0)
            /\ FramesOf(sim_object) = FirstFrames(loaded)
            /\ load_pc = "returned" => loaded = Len(obj_files))
    /\ [][(load_pc \in {"loop", "returned"} /\ load_pc' \in {"loop", "returned"}) =>
            IsPrefix(FramesOf(sim_object), FramesOf(sim_object'))]_vars

\* three frames of a two-node cloth, the first two different, were returned
C11_Witness ==
    /\ load_pc = "returned"
    /\ loaded = 3
    /\ Width(sim_object.nodes) = 2
    /\ obj_files[1].v # obj_files[2].v
    /\ sim_object.nodes = <<obj_files[1].v, obj_files[2].v, obj_files[3].v>>

(***************************************************************************)
(* Mesh.poisson_plane                                                      *)
(*                                                                         *)
(* The plane is the integer lattice: a point is <<x, y>>, distances are    *)
(* compared by their squares.  size and res are chosen so that             *)
(* r = min(size) / res is a whole number of lattice steps.                 *)
(***************************************************************************)
Min(a, b) == IF a <= b THEN a ELSE b

\* line 106
Radius(a) == Min(a.size[1], a.size[2]) \div a.res

\* np.arange(0, stop, step): 0, step, 2 step, ... below stop
arange(stop, step) == [i \in 1..((stop + step - 1) \div step) |-> (i - 1) * step]

SeqToSet(q) == { q[i] : i \in 1..Len(q) }

\* lines 108-113, before np.unique
borderSet(a) ==
    LET r == Radius(a)
        length == SeqToSet(arange(a.size[1] + r, r))
        width == SeqToSet(arange(a.size[2] + r, r))
    IN  { <<x, 0>> : x \in length } \cup { <<x, a.size[2]>> : x \in length }
        \cup { <<0, y>> : y \in width } \cup { <<a.size[1], y>> : y \in width }

LexLess(u, w) == u[1] < w[1] \/ (u[1] = w[1] /\ u[2] <= w[2])

RECURSIVE sortedRows(_)
\* np.unique(rows, axis=0): the distinct rows in lexicographic order
sortedRows(S) ==
    IF S = {} THEN <<>>
    ELSE LET m == CHOOSE u \in S : \A w \in S : LexLess(u, w)
         IN  <<m>> \o sortedRows(S \ {m})

borders(a) == sortedRows(borderSet(a))

DistSq(u, w) == (u[1] - w[1]) * (u[1] - w[1]) + (u[2] - w[2]) * (u[2] - w[2])

\* line 128, negated
inside(a, q) ==
    ~(q[1] < 0 \/ q[1] > a.size[1] \/ q[2] < 0 \/ q[2] > a.size[2])

\* lines 130-131: dist.min() > r
farFromAll(a, vs, q) ==
    \A i \in 1..Len(vs) : DistSq(q, vs[i]) > Radius(a) * Radius(a)

\* lines 125-127: radius * (cos(angle), sin(angle)) with radius in [r, 2r]
Offsets(a) ==
    LET r == Radius(a)
    IN  { d \in ((-2 * r)..(2 * r)) \X ((-2 * r)..(2 * r)) :
            /\ d[1] * d[1] + d[2] * d[2] >= r * r
            /\ d[1] * d[1] + d[2] * d[2] <= 4 * r * r }

\* a `del` that deletes nothing
keepAt(q, i) == q

\* del active[idx]
removeAt(q, i) == [j \in 1..(Len(q) - 1) |-> IF j < i THEN q[j] ELSE q[j + 1]]

\* the calls made: a square with res = 1, 2, 3 (r = 6, 3, 2) and a rectangle
\* whose height r does not divide, each with k = 1..MaxAttempts
Calls ==
    { [size |-> c[1], res |-> c[2], k |-> n] :
        c \in { <<<<6, 6>>, 1>>, <<<<6, 6>>, 2>>, <<<<6, 6>>, 3>>, <<<<6, 7>>, 3>> },
        n \in 1..MaxAttempts }

\* line 116: np.random.random((2,)) * size, a point of [0, w) x [0, h)
SeedPoints(a) == (0..(a.size[1] - 1)) \X (0..(a.size[2] - 1))

PoissonInit ==
    /\ args \in Calls
    /\ \E p \in SeedPoints(args) :
         /\ vertices = Append(borders(args), p)
         /\ active = <<p>>
    /\ idx = 0
    /\ tries = 0
    /\ found = FALSE
    /\ ppc = "pick"
    /\ MergeIdle
    /\ ParseIdle
    /\ LoadIdle
    /\ RunnerIdle

\* lines 120-123
PickActive ==
    /\ ppc = "pick"
    /\ Len(active) > 0
    /\ \E i \in 1..Len(active) : idx' = i
    /\ tries' = 0
    /\ found' = FALSE
    /\ ppc' = "try"
    /\ UNCHANGED <<args, vertices, active, mergeVars, parseVars, loadVars, runnerVars>>

\* lines 124-134: one iteration of the inner loop
TryCandidate ==
    /\ ppc = "try"
    /\ tries < args.k
    /\ \E d \in Offsets(args) :
         LET p == active[idx]
             new_p == <<p[1] + d[1], p[2] + d[2]>>
         IN  IF inside(args, new_p) /\ farFromAll(args, vertices, new_p)
             THEN /\ active' = Append(active, new_p)
                  /\ vertices' = Append(vertices, new_p)
                  /\ found' = TRUE
             ELSE UNCHANGED <<active, vertices, found>>
    /\ tries' = tries + 1
    /\ UNCHANGED <<args, idx, ppc, mergeVars, parseVars, loadVars, runnerVars>>

\* lines 135-136
EndTries ==
    /\ ppc = "try"
    /\ tries = args.k
    /\ active' = IF found THEN active ELSE removeAt(active, idx)
    /\ ppc' = "pick"
    /\ UNCHANGED <<args, vertices, idx, tries, found, mergeVars, parseVars, loadVars, runnerVars>>

\* line 120 with an empty active list: the loop ends
EndSampling ==
    /\ ppc = "pick"
    /\ Len(active) = 0
    /\ ppc' = "done"
    /\ UNCHANGED <<args, vertices, active, idx, tries, found,
                   mergeVars, parseVars, loadVars, runnerVars>>

PoissonNext == PickActive \/ TryCandidate \/ EndTries \/ EndSampling

SpecPoisson == PoissonInit /\ [][PoissonNext]_vars

(***************************************************************************)
(* C7: at every step of the sampling loop and in the mesh returned, every  *)
(* two distinct vertices (border points, the seed point and sampled points *)
(* alike) are at distance at least r.                                      *)
(* (The statement of the claim; the code never compares the seed point     *)
(* with the border points.)                                                *)
(***************************************************************************)
C7_PoissonSpacing ==
    (ppc = "done" /\ args.size[1] = args.size[2]) =>
        \A i \in 1..Len(vertices) : \A j \in 1..Len(vertices) :
            vertices[i] # vertices[j]
            => DistSq(vertices[i], vertices[j]) >= Radius(args) * Radius(args)

\* the loop is sequential code: whenever it has a next step, it takes it
SpecPoissonFair == SpecPoisson /\ WF_vars(PoissonNext)

(***************************************************************************)
(* C12: the sampling loop terminates (the active list becomes empty and    *)
(* the loop is left); an iteration that accepted a point appended it to    *)
(* both the point set and the active list and removes nothing, an          *)
(* iteration that accepted none removes exactly the picked point from the  *)
(* active list; and no point ever leaves the point set, which holds every  *)
(* active point, so a point removed from the active list is in the final   *)
(* vertex set.                                                             *)
(***************************************************************************)
C12_SamplingTerminates ==
    /\ <>(ppc = "done" /\ Len(active) = 0)
    /\ [](SeqToSet(active) \subseteq SeqToSet(vertices))
    /\ [][IsPrefix(vertices, vertices')]_vars
    /\ [][(Len(vertices') > Len(vertices) \/ Len(active') > Len(active)) =>
            /\ found'
            /\ Len(vertices') = Len(vertices) + 1
            /\ active' = Append(active, vertices'[Len(vertices')])]_vars
    /\ [][(found' /\ ~found) => Len(vertices') > Len(vertices)]_vars
    /\ [][(ppc = "try" /\ ppc' = "pick") =>
            IF found THEN active' = active
            ELSE /\ Len(active') = Len(active) - 1
                 /\ SeqToSet(active') \cup {active[idx]} = SeqToSet(active)]_vars

\* the loop ended after accepting at least two points, which were all removed
\* from the active list and are in the vertex set
C12_Witness ==
    /\ ppc = "done"
    /\ Len(active) = 0
    /\ args.k = 2
    /\ Len(vertices) >= Len(borders(args)) + 3

(***************************************************************************)
(* ARCSimRunner: the life of the config file.                              *)
(*                                                                         *)
(* Of each method only what touches self.config_file is kept: the open of  *)
(* run_simulation (line 33) and of load_obj (line 97), and the cleanup of  *)
(* run_simulation (lines 72-73).  The ARCSim process is the environment:   *)
(* how it ends is a choice.                                                *)
(***************************************************************************)
Ended(call, outcome) == [call |-> call, outcome |-> outcome]

\* open(self.config_file, "r")
open == IF config_file_exists THEN "opened" ELSE "FileNotFoundError"

\* Config.cleanup: Path(config_file).unlink(), the file is no longer on disk
cleanup == FALSE

\* lines 68-73: a process still running is terminated, and nothing else is
\* done; otherwise a temporary config file is deleted
afterProcess(running) ==
    IF running THEN config_file_exists
    ELSE IF temporary_config THEN cleanup
    ELSE config_file_exists

\* __init__: a Config is uploaded to a new temporary file (lines 24-26), a
\* path names a file the caller keeps (lines 22-23)
RunnerInit ==
    /\ temporary_config \in BOOLEAN
    /\ config_file_exists = TRUE
    /\ runner_pc = "ready"
    /\ calls = <<>>
    /\ MergeIdle
    /\ ParseIdle
    /\ LoadIdle
    /\ PoissonIdle

\* run_simulation, lines 30-40: the config is read and ARCSim is started
StartSimulation ==
    /\ runner_pc = "ready"
    /\ Len(calls) < MaxCalls
    /\ IF open = "opened"
       THEN /\ runner_pc' = "simulating"
            /\ UNCHANGED calls
       ELSE /\ calls' = Append(calls, Ended("run_simulation", open))
            /\ UNCHANGED runner_pc
    /\ UNCHANGED <<temporary_config, config_file_exists,
                   mergeVars, parseVars, loadVars, poissonVars>>

\* run_simulation, lines 43-75: ARCSim ended without a line on stderr, the
\* loop is left and the finally block runs to its end
SimulationEnds ==
    /\ runner_pc = "simulating"
    /\ calls' = Append(calls, Ended("run_simulation", "returned"))
    /\ config_file_exists' = afterProcess(FALSE)
    /\ runner_pc' = "ready"
    /\ UNCHANGED <<temporary_config, mergeVars, parseVars, loadVars, poissonVars>>

\* run_simulation, lines 43-73: an exception leaves the loop (line 50 on a
\* malformed "Sim frame" line); stderr holds no line; ARCSim still runs and
\* is terminated, or has ended by the time of line 68
SimulationInterrupted ==
    /\ runner_pc = "simulating"
    /\ calls' = Append(calls, Ended("run_simulation", "ValueError"))
    /\ \E running \in BOOLEAN : config_file_exists' = afterProcess(running)
    /\ runner_pc' = "ready"
    /\ UNCHANGED <<temporary_config, mergeVars, parseVars, loadVars, poissonVars>>

\* run_simulation, lines 58-63: ARCSim wrote to stderr, exit(1) ends the
\* program before the cleanup
SimulationFails ==
    /\ runner_pc = "simulating"
    /\ calls' = Append(calls, Ended("run_simulation", "SystemExit"))
    /\ runner_pc' = "exited"
    /\ UNCHANGED <<temporary_config, config_file_exists,
                   mergeVars, parseVars, loadVars, poissonVars>>

\* generate_obj: the config file is not touched
GenerateObj ==
    /\ runner_pc = "ready"
    /\ Len(calls) < MaxCalls
    /\ calls' = Append(calls, Ended("generate_obj", "returned"))
    /\ UNCHANGED <<temporary_config, config_file_exists, runner_pc,
                   mergeVars, parseVars, loadVars, poissonVars>>

\* load_obj: the config is read (line 97) before the frames are
LoadObj ==
    /\ runner_pc = "ready"
    /\ Len(calls) < MaxCalls
    /\ calls' = Append(calls, Ended("load_obj",
                    IF open = "opened" THEN "returned" ELSE open))
    /\ UNCHANGED <<temporary_config, config_file_exists, runner_pc,
                   mergeVars, parseVars, loadVars, poissonVars>>

RunnerNext ==
    \/ StartSimulation
    \/ SimulationEnds
    \/ SimulationInterrupted
    \/ SimulationFails
    \/ GenerateObj
    \/ LoadObj

SpecRunner == RunnerInit /\ [][RunnerNext]_vars

(***************************************************************************)
(* C13: for a runner built from an in-memory Config, in every sequence of  *)
(* calls to run_simulation, generate_obj and load_obj the temporary config *)
(* file exists whenever run_simulation or load_obj opens it: no call ends  *)
(* with FileNotFoundError.                                                 *)
(* (The statement of the claim; run_simulation deletes the file when       *)
(* ARCSim has ended, and every later open fails.)                          *)
(***************************************************************************)
C13_ConfigFileExistsWhenOpened ==
    temporary_config =>
        \A i \in 1..Len(calls) : calls[i].outcome # "FileNotFoundError"

====
